---- MODULE Spec2Model ----
(***************************************************************************)
(* GeoViz (script.js): the geophysical data-reduction pipeline and the     *)
(* plot controller around it.                                              *)
(*                                                                         *)
(* Numbers.  A JavaScript number is modelled as a record                   *)
(*     [t |-> "fin", n, d, pi]   the value (n/d) * PI^pi, d > 0, reduced   *)
(*     [t |-> "inf", n |-> 1 | -1]   +Infinity / -Infinity                 *)
(*     [t |-> "nan"]                 NaN                                   *)
(*     [t |-> "null"]                the value null                        *)
(* Finite values are exact rationals (times a power of Math.PI): binary    *)
(* rounding, overflow past Number.MAX_VALUE and the sign of zero are not   *)
(* modelled.  Non-finite values arise from parsing "Infinity" and from     *)
(* arithmetic on them, as in IEEE 754.                                     *)
(*                                                                         *)
(* Strings.  A string is a sequence of one-character strings.              *)
(***************************************************************************)
EXTENDS Integers, Sequences, FiniteSets, TLC

VARIABLES
    pc,          \* position of the harness that calls a pure function: "call" | "ret";
                 \* in Spec, "plotData" after a handler that ran plotData, else "idle"
    arrayType,   \* document.getElementById('arrayType').value
    positions,   \* argument of calculateGeometricFactor
    K_factor,    \* its return value
    text,        \* argument of parseVLFData / parseResistivityData
    data,        \* the parsers' return value; argument of the grouping
    rows,        \* per line of text, what that loop iteration pushed (<<>> or <<record>>)
    vlfData,     \* argument of calculateKarousHjelt; in Spec, data after data.sort
    khData,      \* its return value
    groups,      \* the series groups plotResistivityData builds, in the order built
    threw,       \* whether the call under check raised an exception
    stats,       \* points and spacingCount of the stats of displayResistivityStats
    chart,       \* the global chart: "null", or the type of the Chart held
    charts,      \* number of Chart instances created and not destroyed
    chartArea,   \* content of #chartArea: "placeholder" | "chart" | "error"
    errorMessage,         \* the message displayError last put there, "none" once cleared
    downloadBtnDisabled,  \* document.getElementById('downloadBtn').disabled
    statsSection,         \* whether #statsSection is displayed
    dataInput,            \* document.getElementById('dataInput').value
    currentDataType,      \* the global currentDataType
    karousHjeltToggle,    \* document.getElementById('karousHjeltToggle').checked
    chartAnnotationPluginLoaded,  \* the global of that name
    darkMode,    \* whether body has the class dark-mode
    upload,      \* results.data of a Papa.parse in progress, <<>> when none is
    uncaught,    \* whether the last handler ended by an exception nothing caught
    watch,       \* history: the configuration whose runs are compared
    memo         \* history: what the first run of the watched configuration produced

uiVars == <<chart, charts, chartArea, errorMessage, downloadBtnDisabled, statsSection,
            dataInput, currentDataType, karousHjeltToggle, chartAnnotationPluginLoaded,
            darkMode, upload, uncaught, watch, memo>>

vars == <<pc, arrayType, positions, K_factor, text, data, rows, vlfData, khData, groups,
          threw, stats, uiVars>>

-----------------------------------------------------------------------------
(* JavaScript numbers *)

RECURSIVE GCD(_, _)
GCD(a, b) == IF b = 0 THEN a ELSE GCD(b, a % b)

AbsInt(i) == IF i < 0 THEN -i ELSE i

NaN == [t |-> "nan", n |-> 0, d |-> 1, pi |-> 0]
Null == [t |-> "null", n |-> 0, d |-> 1, pi |-> 0]
Inf(s) == [t |-> "inf", n |-> s, d |-> 1, pi |-> 0]

\* the value (n/d) * PI^p with n/d reduced by g, their greatest common divisor
FinReduced(n, d, p, g) ==
    IF n = 0 THEN [t |-> "fin", n |-> 0, d |-> 1, pi |-> 0]
    ELSE IF d < 0 THEN [t |-> "fin", n |-> -(n \div g), d |-> -(d \div g), pi |-> p]
    ELSE [t |-> "fin", n |-> n \div g, d |-> d \div g, pi |-> p]

Fin(n, d, p) == FinReduced(n, d, p, GCD(AbsInt(n), AbsInt(d)))

Num(i) == Fin(i, 1, 0)
PI == Fin(1, 1, 1)

\* ToNumber: null converts to +0.
ToNum(x) == IF x.t = "null" THEN Num(0) ELSE x

Sign(x) == IF x.n > 0 THEN 1 ELSE IF x.n < 0 THEN -1 ELSE 0

IsFinite(x) == x.t = "fin"
IsNaN(x) == x.t = "nan"
IsZero(x) == x.t = "fin" /\ x.n = 0

\* !x for a number or null
Falsy(x) == x.t = "null" \/ x.t = "nan" \/ IsZero(x)

Neg(x) == IF x.t \in {"fin", "inf"} THEN [x EXCEPT !.n = -x.n] ELSE x

Abs(x) == IF x.t \in {"fin", "inf"} THEN [x EXCEPT !.n = AbsInt(x.n)] ELSE x

\* x + y for numbers
AddNum(x, y) ==
    CASE x.t = "nan" \/ y.t = "nan" -> NaN
      [] x.t = "inf" /\ y.t = "inf" -> IF x.n = y.n THEN x ELSE NaN
      [] x.t = "inf" -> x
      [] y.t = "inf" -> y
      [] IsZero(x) -> y
      [] IsZero(y) -> x
      [] x.pi = y.pi -> Fin(x.n * y.d + y.n * x.d, x.d * y.d, x.pi)

Add(a, b) == AddNum(ToNum(a), ToNum(b))

Sub(a, b) == AddNum(ToNum(a), Neg(ToNum(b)))

\* x * y for numbers
MulNum(x, y) ==
    CASE x.t = "nan" \/ y.t = "nan" -> NaN
      [] x.t = "inf" \/ y.t = "inf" ->
            IF Sign(x) * Sign(y) = 0 THEN NaN ELSE Inf(Sign(x) * Sign(y))
      [] OTHER -> Fin(x.n * y.n, x.d * y.d, x.pi + y.pi)

Mul(a, b) == MulNum(ToNum(a), ToNum(b))

\* x / y for numbers
DivNum(x, y) ==
    CASE x.t = "nan" \/ y.t = "nan" -> NaN
      [] x.t = "inf" /\ y.t = "inf" -> NaN
      [] x.t = "inf" -> Inf(IF Sign(y) < 0 THEN -x.n ELSE x.n)
      [] y.t = "inf" -> Fin(0, 1, 0)
      [] IsZero(y) -> IF IsZero(x) THEN NaN ELSE Inf(Sign(x))
      [] OTHER -> Fin(x.n * y.d, x.d * y.n, x.pi - y.pi)

Div(a, b) == DivNum(ToNum(a), ToNum(b))

\* x > y for numbers; false when either side is NaN.  Finite operands carry
\* the same power of PI wherever the program compares them.
GtNum(x, y) ==
    CASE x.t = "nan" \/ y.t = "nan" -> FALSE
      [] x.t = "inf" /\ y.t = "inf" -> x.n > y.n
      [] x.t = "inf" -> x.n > 0
      [] y.t = "inf" -> y.n < 0
      [] OTHER -> x.n * y.d > y.n * x.d

Gt(a, b) == GtNum(ToNum(a), ToNum(b))

\* a <= b; false when either side is NaN.
LeNum(x, y) == ~IsNaN(x) /\ ~IsNaN(y) /\ ~GtNum(x, y)

Le(a, b) == LeNum(ToNum(a), ToNum(b))

-----------------------------------------------------------------------------
(* Geophysics: calculation utilities *)

\* line 158 without its test a_wenner > 0
wennerFactor_NoTest(a) == Mul(Mul(Num(2), PI), a)

\* lines 155-159, a being a_wenner
wennerFactor(a) ==
    IF Gt(a, Num(0)) THEN Mul(Mul(Num(2), PI), a) ELSE Null

\* lines 160-165, L and a being L_schl and a_schl
schlumbergerFactor(L, a) ==
    IF Gt(a, Num(0)) /\ Gt(L, a)
    THEN Div(Mul(PI, Sub(Mul(L, L), Mul(a, a))), a)
    ELSE Null

\* lines 173-177, a and n being a_dipole and n_factor
dipoleFactorOf(a, n) ==
    IF Gt(n, Num(0)) /\ Gt(a, Num(0))
    THEN Mul(Mul(Mul(Mul(PI, n), Add(n, Num(1))), Add(n, Num(2))), a)
    ELSE IF Gt(a, Num(0))
    THEN Mul(Mul(Num(2), PI), a)
    ELSE Null

\* lines 166-178, a and R being a_dipole and R_separation
dipoleFactor(a, R) ==
    dipoleFactorOf(a, IF Gt(a, Num(0)) THEN Div(R, a) ELSE Null)

\* lines 154-182
geometricFactorOf(at, p1, p2, p3, p4) ==
    CASE at = "wenner" -> wennerFactor(Abs(Sub(p2, p1)))
      [] at = "schlumberger" ->
            schlumbergerFactor(Div(Abs(Sub(p4, p1)), Num(2)),
                               Div(Abs(Sub(p3, p2)), Num(2)))
      [] at = "dipole" -> dipoleFactor(Abs(Sub(p2, p1)), Abs(Sub(p3, p2)))
      [] OTHER -> Null

calculateGeometricFactor(at, ps) ==
    IF Falsy(ps[1]) \/ Falsy(ps[2]) \/ Falsy(ps[3]) \/ Falsy(ps[4]) THEN Null
    ELSE geometricFactorOf(at, ps[1], ps[2], ps[3], ps[4])

-----------------------------------------------------------------------------
(* Strings *)

\* The white space String.prototype.trim and parseFloat strip (of the
\* characters the inputs are built from).
WhiteSpace == {" ", "\t", "\n", "\r"}

Digits == <<"0", "1", "2", "3", "4", "5", "6", "7", "8", "9">>
UpperCase == <<"A", "B", "C", "D", "E", "F", "G", "H", "I", "J", "K", "L", "M",
               "N", "O", "P", "Q", "R", "S", "T", "U", "V", "W", "X", "Y", "Z">>
LowerCase == <<"a", "b", "c", "d", "e", "f", "g", "h", "i", "j", "k", "l", "m",
               "n", "o", "p", "q", "r", "s", "t", "u", "v", "w", "x", "y", "z">>

IsDigit(c) == \E i \in 1 .. 10 : Digits[i] = c
DigitVal(c) == (CHOOSE i \in 1 .. 10 : Digits[i] = c) - 1

\* the /i flag of the header patterns
ToLower(c) ==
    IF \E i \in 1 .. 26 : UpperCase[i] = c
    THEN LowerCase[CHOOSE i \in 1 .. 26 : UpperCase[i] = c]
    ELSE c

Drop(s, k) == SubSeq(s, k + 1, Len(s))

StartsWith(s, p) == Len(s) >= Len(p) /\ SubSeq(s, 1, Len(p)) = p

RECURSIVE TrimStart(_)
TrimStart(s) == IF s # <<>> /\ s[1] \in WhiteSpace THEN TrimStart(Tail(s)) ELSE s

RECURSIVE TrimEnd(_)
TrimEnd(s) ==
    IF s # <<>> /\ s[Len(s)] \in WhiteSpace THEN TrimEnd(SubSeq(s, 1, Len(s) - 1)) ELSE s

Trim(s) == TrimEnd(TrimStart(s))

\* pattern.test(line) for a pattern that is one lower-case word, with /i
ContainsCI(line, word) ==
    \E i \in 0 .. Len(line) - Len(word) :
        \A j \in 1 .. Len(word) : ToLower(line[i + j]) = word[j]

\* index of the first line feed of s, 0 when there is none
FirstNewline(s) ==
    IF \E i \in 1 .. Len(s) : s[i] = "\n"
    THEN CHOOSE i \in 1 .. Len(s) :
            s[i] = "\n" /\ \A j \in 1 .. (i - 1) : s[j] # "\n"
    ELSE 0

\* the piece before a line feed, without the carriage return /\r?\n/ takes
BeforeNewline(cur) ==
    IF cur # <<>> /\ cur[Len(cur)] = "\r" THEN SubSeq(cur, 1, Len(cur) - 1) ELSE cur

\* s.split(/\r?\n/)
RECURSIVE SplitLines(_)
SplitLines(s) ==
    IF FirstNewline(s) = 0 THEN <<s>>
    ELSE <<BeforeNewline(SubSeq(s, 1, FirstNewline(s) - 1))>>
         \o SplitLines(Drop(s, FirstNewline(s)))

Delims == {"\t", ",", " "}

\* s.split(/[\t, ]+/): a run of delimiters is one separator
RECURSIVE SplitDelimsFrom(_, _)
SplitDelimsFrom(s, cur) ==
    IF s = <<>> THEN <<cur>>
    ELSE IF s[1] \in Delims
    THEN IF Len(s) > 1 /\ s[2] \in Delims
         THEN SplitDelimsFrom(Tail(s), cur)
         ELSE <<cur>> \o SplitDelimsFrom(Tail(s), <<>>)
    ELSE SplitDelimsFrom(Tail(s), Append(cur, s[1]))

\* ''.split(re) is [''], as SplitDelimsFrom gives
SplitDelims(s) == SplitDelimsFrom(s, <<>>)

\* .filter(Boolean) on an array of strings
NonEmpty(ss) == SelectSeq(ss, LAMBDA x : x # <<>>)

MapTrim(ss) == [i \in 1 .. Len(ss) |-> Trim(ss[i])]

RECURSIVE Pow10(_)
Pow10(k) == IF k = 0 THEN 1 ELSE 10 * Pow10(k - 1)

RECURSIVE DigitRun(_)
DigitRun(s) == IF s # <<>> /\ IsDigit(s[1]) THEN <<s[1]>> \o DigitRun(Tail(s)) ELSE <<>>

RECURSIVE DigitsVal(_)
DigitsVal(ds) ==
    IF ds = <<>> THEN 0
    ELSE 10 * DigitsVal(SubSeq(ds, 1, Len(ds) - 1)) + DigitVal(ds[Len(ds)])

InfinityStr == <<"I", "n", "f", "i", "n", "i", "t", "y">>
UndefinedStr == <<"u", "n", "d", "e", "f", "i", "n", "e", "d">>

\* parseFloat, after the mantissa: r2 is what follows it, ip and fp its
\* integer and fraction digits.  An exponent part counts only with a digit.
\* The result is the value and the rest of the string, which parseFloat
\* ignores and Number() does not allow.
parseFloatValue(sgn, ip, fp, ex) ==
    IF ip = <<>> /\ fp = <<>> THEN NaN
    ELSE IF ex >= 0 THEN Fin(sgn * DigitsVal(ip \o fp) * Pow10(ex), 1, 0)
    ELSE Fin(sgn * DigitsVal(ip \o fp), Pow10(-ex), 0)

\* ed are the exponent's digits, esgn its sign, r5 what follows the digits
parseFloatExponentDigits(r2, sgn, ip, fp, esgn, ed, r5) ==
    [value |-> parseFloatValue(sgn, ip, fp, esgn * DigitsVal(ed) - Len(fp)),
     rest |-> IF ed = <<>> THEN r2 ELSE r5]

\* r3 is what follows the e, <<>> when there is no e
parseFloatExponentSigned(r2, sgn, ip, fp, r3, r4) ==
    parseFloatExponentDigits(r2, sgn, ip, fp,
                             IF r3 # <<>> /\ r3[1] = "-" THEN -1 ELSE 1,
                             DigitRun(r4), Drop(r4, Len(DigitRun(r4))))

parseFloatExponentPart(r2, sgn, ip, fp, r3) ==
    parseFloatExponentSigned(r2, sgn, ip, fp, r3,
                             IF r3 # <<>> /\ r3[1] \in {"-", "+"} THEN Tail(r3) ELSE r3)

parseFloatExponent(r2, sgn, ip, fp) ==
    parseFloatExponentPart(r2, sgn, ip, fp,
                           IF r2 # <<>> /\ r2[1] \in {"e", "E"} THEN Tail(r2) ELSE <<>>)

\* parseFloat, after the integer digits ip: r1 is what follows them
parseFloatFractionDigits(r1, sgn, ip, fp) ==
    parseFloatExponent(IF r1 # <<>> /\ r1[1] = "." THEN Drop(r1, 1 + Len(fp)) ELSE r1,
                       sgn, ip, fp)

parseFloatFraction(r1, sgn, ip) ==
    parseFloatFractionDigits(r1, sgn, ip,
                             IF r1 # <<>> /\ r1[1] = "." THEN DigitRun(Tail(r1)) ELSE <<>>)

\* parseFloat, after the sign: r is what follows it
parseFloatUnsigned(r, sgn) ==
    IF StartsWith(r, InfinityStr)
    THEN [value |-> Inf(sgn), rest |-> Drop(r, Len(InfinityStr))]
    ELSE parseFloatFraction(Drop(r, Len(DigitRun(r))), sgn, DigitRun(r))

parseFloatTrimmed(t) ==
    parseFloatUnsigned(IF t # <<>> /\ t[1] \in {"-", "+"} THEN Tail(t) ELSE t,
                       IF t # <<>> /\ t[1] = "-" THEN -1 ELSE 1)

\* parseFloat: the longest prefix of the trimmed string that is a
\* StrDecimalLiteral; NaN when there is none.
parseFloat(str) == parseFloatTrimmed(TrimStart(str)).value

\* Number(str) for decimal literals: the whole trimmed string must be the
\* literal; the empty string is 0.
NumberOf(str) ==
    IF Trim(str) = <<>> THEN Num(0)
    ELSE IF parseFloatTrimmed(Trim(str)).rest = <<>>
    THEN parseFloatTrimmed(Trim(str)).value
    ELSE NaN

RECURSIVE IntStr(_)
IntStr(i) ==
    IF i < 10 THEN <<Digits[i + 1]>> ELSE IntStr(i \div 10) \o <<Digits[(i % 10) + 1]>>

\* Number.prototype.toFixed(2): the integer m with m / 100 nearest the
\* value, the larger one on a tie, written with two fraction digits.
\* (Values of 1e21 and more, which toFixed writes in exponent form, are
\* beyond the inputs.)
toFixed2(x) ==
    CASE x.t = "nan" -> <<"N", "a", "N">>
      [] x.t = "inf" -> (IF x.n < 0 THEN <<"-">> ELSE <<>>) \o InfinityStr
      [] OTHER ->
            LET m == (200 * AbsInt(x.n) + x.d) \div (2 * x.d)
            IN  (IF x.n < 0 THEN <<"-">> ELSE <<>>)
                \o IntStr(m \div 100)
                \o <<".", Digits[((m % 100) \div 10) + 1], Digits[(m % 10) + 1]>>

\* parts[i] of a JavaScript array, 0-based: undefined past the end, which
\* parseFloat converts to the string "undefined"
Part(parts, i) == IF i + 1 <= Len(parts) THEN parts[i + 1] ELSE UndefinedStr

-----------------------------------------------------------------------------
(* Karous-Hjelt filter *)

\* the loop body without the test d_station !== 0
karousHjeltPair_NoZeroTest(p1, p2) ==
    <<[x |-> Div(Add(p1.station, p2.station), Num(2)),
       y |-> Div(Sub(p2.inPhase, p1.inPhase), Sub(p2.station, p1.station))]>>

\* lines 193-203: what one iteration of the loop pushes
karousHjeltPair(p1, p2) ==
    IF ~IsZero(Sub(p2.station, p1.station))
    THEN <<[x |-> Div(Add(p1.station, p2.station), Num(2)),
            y |-> Div(Sub(p2.inPhase, p1.inPhase), Sub(p2.station, p1.station))]>>
    ELSE <<>>

RECURSIVE calculateKarousHjeltFrom(_, _)
calculateKarousHjeltFrom(vd, i) ==
    IF i > Len(vd) - 1 THEN <<>>
    ELSE karousHjeltPair(vd[i], vd[i + 1]) \o calculateKarousHjeltFrom(vd, i + 1)

calculateKarousHjelt(vd) ==
    IF Len(vd) < 2 THEN <<>> ELSE calculateKarousHjeltFrom(vd, 1)

-----------------------------------------------------------------------------
(* Parser functions *)

\* text.split(/\r?\n/).map(l => l.trim()).filter(Boolean)
VLFLines(txt) == NonEmpty(MapTrim(SplitLines(txt)))

\* parseVLFLine without the finiteness test on quadrature
parseVLFLine_NoQuadratureTest(line) ==
    LET parts == NonEmpty(MapTrim(SplitDelims(line)))
        station == parseFloat(Part(parts, 0))
        inPhase == parseFloat(Part(parts, 1))
        quadrature == parseFloat(Part(parts, 2))
    IN  IF ContainsCI(line, <<"s", "t", "a", "t", "i", "o", "n">>)
           \/ ContainsCI(line, <<"i", "n", "p", "h", "a", "s", "e">>)
        THEN <<>>
        ELSE IF Len(parts) < 3 THEN <<>>
        ELSE IF IsFinite(station) /\ IsFinite(inPhase)
        THEN <<[station |-> station, inPhase |-> inPhase, quadrature |-> quadrature]>>
        ELSE <<>>

\* one iteration of the loop of parseVLFData: what it pushes
parseVLFLine(line) ==
    LET parts == NonEmpty(MapTrim(SplitDelims(line)))
        station == parseFloat(Part(parts, 0))
        inPhase == parseFloat(Part(parts, 1))
        quadrature == parseFloat(Part(parts, 2))
    IN  IF ContainsCI(line, <<"s", "t", "a", "t", "i", "o", "n">>)
           \/ ContainsCI(line, <<"i", "n", "p", "h", "a", "s", "e">>)
        THEN <<>>
        ELSE IF Len(parts) < 3 THEN <<>>
        ELSE IF IsFinite(station) /\ IsFinite(inPhase) /\ IsFinite(quadrature)
        THEN <<[station |-> station, inPhase |-> inPhase, quadrature |-> quadrature]>>
        ELSE <<>>

RECURSIVE Flatten(_)
Flatten(ss) == IF ss = <<>> THEN <<>> ELSE Head(ss) \o Flatten(Tail(ss))

parseVLFRows(txt) ==
    LET lines == VLFLines(txt)
    IN  [i \in 1 .. Len(lines) |-> parseVLFLine(lines[i])]

parseVLFData(txt) == Flatten(parseVLFRows(txt))

\* text.trim().split(/\r?\n/).map(l => l.trim()).filter(Boolean)
ResLines(txt) == NonEmpty(MapTrim(SplitLines(Trim(txt))))

\* line 256: if (spacingA <= 0) continue;  with its mutant, a strict test
spacingSkipped_Strict(spacingA) == Gt(Num(0), spacingA)

spacingSkipped(spacingA) == Le(spacingA, Num(0))

\* lines 258-262: the supplied K, or the calculator's when the supplied one
\* is not finite or is zero; ok is FALSE where the code continues
resolveKWith(kSupplied, k) ==
    IF ~IsFinite(kSupplied) \/ IsZero(kSupplied)
    THEN [ok |-> ~(~IsFinite(k) \/ IsZero(k)), kFactor |-> k]
    ELSE [ok |-> TRUE, kFactor |-> kSupplied]

\* lines 258-262 with the calculator called for every row
resolveK_CalculatorAlways(at, ps, kSupplied) ==
    resolveKWith(NaN, calculateGeometricFactor(at, ps))

resolveK(at, ps, kSupplied) ==
    resolveKWith(kSupplied,
                 IF ~IsFinite(kSupplied) \/ IsZero(kSupplied)
                 THEN calculateGeometricFactor(at, ps)
                 ELSE kSupplied)

\* resolveRho with the flag left at its initial false
resolveRho_FlagNeverSet(kFactor, resistance, rhoSupplied) ==
    IF ~IsFinite(rhoSupplied)
    THEN IF IsFinite(kFactor) /\ IsFinite(resistance)
         THEN [ok |-> TRUE, apparentResistivity |-> Mul(kFactor, resistance),
               isCalculated |-> FALSE]
         ELSE [ok |-> FALSE, apparentResistivity |-> rhoSupplied, isCalculated |-> FALSE]
    ELSE [ok |-> TRUE, apparentResistivity |-> rhoSupplied, isCalculated |-> FALSE]

\* lines 264-272: the supplied apparent resistivity, or K * R when the
\* supplied one is not finite; ok is FALSE where the code continues
resolveRho(kFactor, resistance, rhoSupplied) ==
    IF ~IsFinite(rhoSupplied)
    THEN IF IsFinite(kFactor) /\ IsFinite(resistance)
         THEN [ok |-> TRUE, apparentResistivity |-> Mul(kFactor, resistance),
               isCalculated |-> TRUE]
         ELSE [ok |-> FALSE, apparentResistivity |-> rhoSupplied, isCalculated |-> FALSE]
    ELSE [ok |-> TRUE, apparentResistivity |-> rhoSupplied, isCalculated |-> FALSE]

\* lines 274-289: midpoint, depth and the push
resistivityPush(at, ps, resistance, spacingA, kFactor, rho, midpoint) ==
    IF IsFinite(midpoint) /\ IsFinite(rho.apparentResistivity)
    THEN <<[arrayType |-> at, positions |-> ps, spacing |-> spacingA,
            midpoint |-> midpoint, depth |-> Mul(spacingA, Fin(519, 1000, 0)),
            kFactor |-> kFactor, resistance |-> resistance,
            apparentResistivity |-> rho.apparentResistivity,
            isCalculated |-> rho.isCalculated]>>
    ELSE <<>>

\* lines 264-272, with the K factor resolved
resistivityWithK(at, ps, resistance, rhoSupplied, spacingA, kFactor, rho) ==
    IF ~rho.ok THEN <<>>
    ELSE resistivityPush(at, ps, resistance, spacingA, kFactor, rho,
                         Div(Add(ps[1], ps[4]), Num(2)))

\* lines 255-262, with the spacing computed
resistivityWithSpacing(at, ps, kSupplied, resistance, rhoSupplied, spacingA, k) ==
    IF spacingSkipped(spacingA) THEN <<>>
    ELSE IF ~k.ok THEN <<>>
    ELSE resistivityWithK(at, ps, resistance, rhoSupplied, spacingA, k.kFactor,
                          resolveRho(k.kFactor, resistance, rhoSupplied))

\* lines 253-255, with the columns parsed
resistivityParsed(at, ps, kSupplied, resistance, rhoSupplied) ==
    IF \E i \in 1 .. 4 : IsNaN(ps[i]) THEN <<>>
    ELSE resistivityWithSpacing(at, ps, kSupplied, resistance, rhoSupplied,
                                Abs(Sub(ps[2], ps[1])), resolveK(at, ps, kSupplied))

\* lines 245-251, with the line split
resistivityParts(at, parts) ==
    IF Len(parts) < 6 THEN <<>>
    ELSE resistivityParsed(at, [i \in 1 .. 4 |-> parseFloat(Part(parts, i - 1))],
                           parseFloat(Part(parts, 4)), parseFloat(Part(parts, 5)),
                           parseFloat(Part(parts, 6)))

\* one iteration of the loop of parseResistivityData: what it pushes
parseResistivityLine(at, line) ==
    IF \/ ContainsCI(line, <<"e", "l", "e", "c", "t", "r", "o", "d", "e">>)
       \/ ContainsCI(line, <<"p", "o", "s">>)
       \/ ContainsCI(line, <<"s", "t", "a", "t", "i", "o", "n">>)
    THEN <<>>
    ELSE resistivityParts(at, NonEmpty(SplitDelims(line)))

parseResistivityRows(txt, at) ==
    LET lines == ResLines(txt)
    IN  [i \in 1 .. Len(lines) |-> parseResistivityLine(at, lines[i])]

parseResistivityData(txt, at) == Flatten(parseResistivityRows(txt, at))

-----------------------------------------------------------------------------
(* Series grouping (plotResistivityData) *)

\* lines 479-483: groupedData as the list of its keys, in insertion order
\* (no key is an array index, so Object.keys keeps that order), each with
\* its records
addToGroup(gd, d) ==
    IF \E i \in 1 .. Len(gd) : gd[i].key = toFixed2(d.spacing)
    THEN [i \in 1 .. Len(gd) |->
            IF gd[i].key = toFixed2(d.spacing)
            THEN [gd[i] EXCEPT !.points = Append(@, d)]
            ELSE gd[i]]
    ELSE Append(gd, [key |-> toFixed2(d.spacing), points |-> <<d>>])

RECURSIVE groupedDataOf(_)
groupedDataOf(ds) ==
    IF ds = <<>> THEN <<>>
    ELSE addToGroup(groupedDataOf(SubSeq(ds, 1, Len(ds) - 1)), ds[Len(ds)])

\* Array.prototype.sort with the comparator (a, b) => a - b: stable, by
\* insertion; x goes before the elements e with e - x > 0
RECURSIVE insertNumber(_, _)
insertNumber(sorted, x) ==
    IF sorted # <<>> /\ Gt(Sub(sorted[Len(sorted)], x), Num(0))
    THEN Append(insertNumber(SubSeq(sorted, 1, Len(sorted) - 1), x), sorted[Len(sorted)])
    ELSE Append(sorted, x)

RECURSIVE sortNumbersFrom(_)
sortNumbersFrom(ns) ==
    IF ns = <<>> THEN <<>>
    ELSE insertNumber(sortNumbersFrom(SubSeq(ns, 1, Len(ns) - 1)), ns[Len(ns)])

\* the keys left in insertion order
sortNumbers_NotSorted(ns) == ns

\* line 493: .sort((a, b) => a - b)
sortNumbers(ns) == sortNumbersFrom(ns)

RECURSIVE insertByMidpoint(_, _)
insertByMidpoint(sorted, d) ==
    IF sorted # <<>> /\ Gt(Sub(sorted[Len(sorted)].midpoint, d.midpoint), Num(0))
    THEN Append(insertByMidpoint(SubSeq(sorted, 1, Len(sorted) - 1), d),
                sorted[Len(sorted)])
    ELSE Append(sorted, d)

RECURSIVE sortByMidpointFrom(_)
sortByMidpointFrom(ds) ==
    IF ds = <<>> THEN <<>>
    ELSE insertByMidpoint(sortByMidpointFrom(SubSeq(ds, 1, Len(ds) - 1)), ds[Len(ds)])

\* the points left in input order
sortByMidpoint_NotSorted(ds) == ds

\* line 495: points.sort((a, b) => a.midpoint - b.midpoint)
sortByMidpoint(ds) == sortByMidpointFrom(ds)

pointOf(p) == [x |-> p.midpoint, y |-> p.apparentResistivity]

MapPoints(ds) == [i \in 1 .. Len(ds) |-> pointOf(ds[i])]

\* lines 494-498 for the points found under the key
seriesGroup(spacing, points) ==
    [spacing |-> spacing,
     measured |-> MapPoints(SelectSeq(sortByMidpoint(points),
                                      LAMBDA p : ~p.isCalculated)),
     calculated |-> MapPoints(SelectSeq(sortByMidpoint(points),
                                        LAMBDA p : p.isCalculated))]

\* groupedData[key]
hasKey(gd, key) == \E i \in 1 .. Len(gd) : gd[i].key = key
pointsAt(gd, key) == gd[CHOOSE i \in 1 .. Len(gd) : gd[i].key = key].points

\* line 493: Object.keys(groupedData).map(Number).sort((a, b) => a - b)
sortedSpacings(gd) == sortNumbers([i \in 1 .. Len(gd) |-> NumberOf(gd[i].key)])

\* lines 478-538: points is undefined, and points.sort throws, when the
\* number read back from a key does not format to that key
seriesGroupsFrom(gd, spacings) ==
    IF \E i \in 1 .. Len(spacings) : ~hasKey(gd, toFixed2(spacings[i]))
    THEN [threw |-> TRUE, groups |-> <<>>]
    ELSE [threw |-> FALSE,
          groups |-> [i \in 1 .. Len(spacings) |->
                        seriesGroup(spacings[i], pointsAt(gd, toFixed2(spacings[i])))]]

seriesGroups(ds) == seriesGroupsFrom(groupedDataOf(ds), sortedSpacings(groupedDataOf(ds)))

\* no statistics displayed
NoStats == [points |-> 0, spacingCount |-> 0]

\* the distinct spacings counted without rounding them
displayResistivityStats_ExactSpacings(ds) ==
    [points |-> Len(ds),
     spacingCount |-> Cardinality({ds[i].spacing : i \in 1 .. Len(ds)})]

\* lines 637-642: stats.points and stats.spacingCount
displayResistivityStats(ds) ==
    [points |-> Len(ds),
     spacingCount |-> Cardinality({toFixed2(ds[i].spacing) : i \in 1 .. Len(ds)})]

-----------------------------------------------------------------------------
(* Bounds of the input sets *)

\* Electrode positions are drawn from the multiples of 10 in
\* -10 .. 10 * MaxPos, plus Infinity and NaN.
MaxPos == 3

ArrayTypes == {"wenner", "schlumberger", "dipole"}

PosValues == {Num(10 * i) : i \in -1 .. MaxPos} \cup {Inf(1), NaN}

\* A generated line has up to MaxFields fields; a multi-line text has up to
\* MaxLines lines.
MaxFields == 4
MaxLines == 3

RECURSIVE JoinWith(_, _)
JoinWith(ss, sep) ==
    IF ss = <<>> THEN <<>>
    ELSE IF Len(ss) = 1 THEN ss[1]
    ELSE ss[1] \o sep \o JoinWith(Tail(ss), sep)

TupleSets(S, lo, hi) == UNION {[1 .. k -> S] : k \in lo .. hi}

FieldSeps == {<<"\t">>, <<",">>, <<",", " ">>}
LineEnds == {<<"\n">>, <<"\r", "\n">>}

StationStr == <<"S", "t", "a", "t", "i", "o", "n">>
T_0 == <<"0">>
T_10 == <<"1", "0">>
T_m12p5 == <<"-", "1", "2", ".", "5">>
T_45p2 == <<"4", "5", ".", "2">>
T_x == <<"x">>
T_7x == <<"7", "x">>

VLFTokens == {T_10, T_m12p5, T_x, InfinityStr, T_7x}

VLFGeneratedLines ==
    {JoinWith(f, sep) : f \in TupleSets(VLFTokens, 1, MaxFields), sep \in FieldSeps}

VLFSampleLines ==
    { JoinWith(<<StationStr, <<"I", "n", "P", "h", "a", "s", "e">>,
                 <<"Q", "u", "a", "d">>>>, <<"\t">>),
      JoinWith(<<<<"S", "T", "A", "T", "I", "O", "N">>, T_0, T_10>>, <<" ">>),
      JoinWith(<<T_0, T_10, T_10, <<"i", "n", "p", "h", "a", "s", "e">>>>, <<" ">>),
      <<>>,
      <<" ", "\t">>,
      <<",">> \o JoinWith(<<T_10, T_10, T_0>>, <<",">>),
      JoinWith(<<T_0, T_45p2, T_m12p5>>, <<"\t">>) \o <<" ">>,
      JoinWith(<<T_10, T_45p2, T_x>>, <<"\t">>),
      JoinWith(<<T_0, <<"-", "I", "n", "f", "i", "n", "i", "t", "y">>, T_0>>, <<" ", " ">>),
      JoinWith(<<T_0, T_10>>, <<",">>) }

VLFTexts ==
    VLFGeneratedLines
    \cup {JoinWith(ls, e) : ls \in TupleSets(VLFSampleLines, 2, MaxLines), e \in LineEnds}

T_20 == <<"2", "0">>
T_30 == <<"3", "0">>
T_40 == <<"4", "0">>
T_mInf == <<"-", "I", "n", "f", "i", "n", "i", "t", "y">>
T_62p83 == <<"6", "2", ".", "8", "3">>
T_8p1 == <<"8", ".", "1">>
T_508p92 == <<"5", "0", "8", ".", "9", "2">>

\* Generated resistivity rows: one token per column from these sets; the
\* empty token leaves the 7th column out.
ResP1 == {T_0, T_10, InfinityStr}
ResP2 == {T_0, T_10, T_20, InfinityStr, T_x}
ResP3 == {T_20, T_30}
ResP4 == {T_40, T_mInf}
ResK == {T_62p83, T_0, T_x, InfinityStr}
ResR == {T_8p1, T_x, InfinityStr}
ResRho == {<<>>, T_508p92, InfinityStr, T_x}

ResGeneratedLines ==
    {Trim(JoinWith(<<a, b, c, d, k, r, rho>>, <<"\t">>)) :
        a \in ResP1, b \in ResP2, c \in ResP3, d \in ResP4,
        k \in ResK, r \in ResR, rho \in ResRho}

ResSampleLines ==
    { JoinWith(<<<<"P", "1">>, <<"P", "2">>, <<"P", "3">>, <<"P", "4">>, <<"K">>, <<"R">>, <<"A", "p", "p", "a", "r", "e", "n", "t", "_", "R", "h", "o">>>>, <<"\t">>),
      JoinWith(<<<<"E", "l", "e", "c", "t", "r", "o", "d", "e">>, T_10, T_20, T_30, T_40, T_62p83, T_8p1>>, <<" ">>),
      JoinWith(<<T_0, T_10, T_20, T_30, T_62p83, T_8p1, T_508p92>>, <<"\t">>),
      JoinWith(<<T_10, T_20, T_30, T_40, T_62p83, T_8p1>>, <<"\t">>) \o <<"\t">>,
      JoinWith(<<T_0, T_20, T_40, T_40, T_0, T_8p1>>, <<",">>),
      JoinWith(<<T_10, T_30, T_40, T_40, T_x, T_8p1, T_x>>, <<",", " ">>),
      JoinWith(<<T_10, T_10, T_20, T_30, T_62p83, T_8p1, T_508p92>>, <<" ">>),
      JoinWith(<<T_10, T_20, T_30, T_40, T_62p83>>, <<" ">>) }

ResTexts ==
    ResGeneratedLines
    \cup {JoinWith(ls, e) : ls \in TupleSets(ResSampleLines, 2, MaxLines), e \in LineEnds}

\* The Karous-Hjelt filter is called on up to MaxVLF records.
MaxVLF == 3

KHStations == {Num(0), Num(10), Num(20)}
KHInPhases == {Fin(452, 10, 0), Fin(523, 10, 0), Num(-5)}

KHRecords ==
    {[station |-> st, inPhase |-> ip, quadrature |-> Fin(-125, 10, 0)] :
        st \in KHStations, ip \in KHInPhases}

\* The grouping is called on up to MaxRecs records.
MaxRecs == 3

\* Spacings 10.001, 10.004, 10.006, 5 and Infinity (a row 0, Infinity, ...
\* with a supplied K is accepted with that spacing); no spacing lies on a
\* rounding tie, where the binary value decides.
GroupSpacings == {Fin(10001, 1000, 0), Fin(10004, 1000, 0), Fin(10006, 1000, 0),
                  Num(5), Inf(1)}
GroupMidpoints == {Num(15), Num(25)}

GroupChoices ==
    {[spacing |-> sp, midpoint |-> m, isCalculated |-> c] :
        sp \in GroupSpacings, m \in GroupMidpoints, c \in BOOLEAN}

\* The records carry the fields the grouping reads; the apparent resistivity
\* of the i-th record is 100 + i, which tells the records apart.
GroupInputs ==
    {[i \in 1 .. Len(c) |->
        [spacing |-> c[i].spacing, midpoint |-> c[i].midpoint,
         apparentResistivity |-> Num(100 + i), isCalculated |-> c[i].isCalculated]] :
     c \in TupleSets(GroupChoices, 1, MaxRecs)}

\* lines 706-720: the VLF sample
SampleVLFText ==
    JoinWith(<<
        <<"S", "t", "a", "t", "i", "o", "n", "\t", "I", "n", "P", "h", "a", "s", "e", "\t", "Q", "u", "a", "d", "r", "a", "t", "u", "r", "e">>,
        <<"0", "\t", "4", "5", ".", "2", "\t", "-", "1", "2", ".", "5">>,
        <<"1", "0", "\t", "5", "2", ".", "3", "\t", "-", "1", "5", ".", "8">>,
        <<"2", "0", "\t", "4", "8", ".", "7", "\t", "-", "1", "8", ".", "2">>,
        <<"3", "0", "\t", "3", "5", ".", "1", "\t", "-", "2", "2", ".", "1">>,
        <<"4", "0", "\t", "1", "5", ".", "6", "\t", "-", "1", "9", ".", "5">>,
        <<"5", "0", "\t", "-", "5", ".", "9", "\t", "-", "1", "0", ".", "3">>,
        <<"6", "0", "\t", "-", "2", "0", ".", "4", "\t", "5", ".", "2">>,
        <<"7", "0", "\t", "-", "1", "5", ".", "8", "\t", "1", "5", ".", "7">>,
        <<"8", "0", "\t", "-", "8", ".", "1", "\t", "1", "2", ".", "4">>,
        <<"9", "0", "\t", "2", ".", "5", "\t", "8", ".", "9">>,
        <<"1", "0", "0", "\t", "1", "0", ".", "1", "\t", "4", ".", "1">>,
        <<"1", "1", "0", "\t", "1", "5", ".", "0", "\t", "-", "2", ".", "0">>,
        <<"1", "2", "0", "\t", "1", "2", ".", "0", "\t", "-", "8", ".", "0">>>>, <<"\n">>) \o <<"\n">>

\* lines 723-733: the resistivity sample
SampleResistivityText ==
    JoinWith(<<
        <<"P", "1", "\t", "P", "2", "\t", "P", "3", "\t", "P", "4", "\t", "K", "\t", "R", "\t", "A", "p", "p", "a", "r", "e", "n", "t", "_", "R", "h", "o">>,
        <<"0", "\t", "1", "0", "\t", "2", "0", "\t", "3", "0", "\t", "6", "2", ".", "8", "3", "\t", "8", ".", "1", "\t", "5", "0", "8", ".", "9", "2">>,
        <<"1", "0", "\t", "2", "0", "\t", "3", "0", "\t", "4", "0", "\t", "6", "2", ".", "8", "3", "\t", "9", ".", "5", "\t">>,
        <<"2", "0", "\t", "3", "0", "\t", "4", "0", "\t", "5", "0", "\t", "6", "2", ".", "8", "3", "\t", "1", "1", ".", "2", "\t", "7", "0", "3", ".", "6", "9">>,
        <<"3", "0", "\t", "4", "0", "\t", "5", "0", "\t", "6", "0", "\t", "6", "2", ".", "8", "3", "\t", "1", "0", ".", "8", "\t">>,
        <<"4", "0", "\t", "5", "0", "\t", "6", "0", "\t", "7", "0", "\t", "6", "2", ".", "8", "3", "\t", "9", ".", "9", "\t", "6", "2", "1", ".", "0", "1">>,
        <<"0", "\t", "2", "0", "\t", "4", "0", "\t", "6", "0", "\t", "1", "2", "5", ".", "6", "6", "\t", "4", ".", "5", "\t">>,
        <<"1", "0", "\t", "3", "0", "\t", "5", "0", "\t", "7", "0", "\t", "1", "2", "5", ".", "6", "6", "\t", "5", ".", "1", "\t", "6", "4", "0", ".", "8", "6">>,
        <<"2", "0", "\t", "4", "0", "\t", "6", "0", "\t", "8", "0", "\t", "1", "2", "5", ".", "6", "6", "\t", "5", ".", "8", "\t">>,
        <<"0", "\t", "3", "0", "\t", "6", "0", "\t", "9", "0", "\t", "1", "8", "8", ".", "4", "9", "\t", "3", ".", "2", "\t", "6", "0", "3", ".", "1", "6">>,
        <<"1", "0", "\t", "4", "0", "\t", "7", "0", "\t", "1", "0", "0", "\t", "1", "8", "8", ".", "4", "9", "\t", "3", ".", "9", "\t">>>>, <<"\n">>)

\* line 109: results.data.map((row) => row.join('\t')).join('\n')
csvTextOf(res) ==
    JoinWith([i \in 1 .. Len(res) |-> JoinWith(res[i], <<"\t">>)], <<"\n">>)

DataTypes == {"vlf", "resistivity"}

\* What the user types into #dataInput: nothing, stations out of order with
\* a row that is dropped, resistivity rows with K supplied and K left to
\* the calculator, and a text with no number in it.
TypedVLFText ==
    JoinWith(<<JoinWith(<<T_10, T_45p2, T_m12p5>>, <<",">>),
               JoinWith(<<T_0, T_10, T_0>>, <<",">>),
               JoinWith(<<T_20, T_x, T_0>>, <<",">>)>>, <<"\n">>)
TypedResistivityText ==
    JoinWith(<<JoinWith(<<T_10, T_20, T_30, T_40, T_0, T_8p1>>, <<" ">>),
               JoinWith(<<T_0, T_10, T_20, T_30, T_62p83, T_8p1, T_508p92>>, <<" ">>)>>,
             <<"\n">>)
TypedTexts == {<<>>, TypedVLFText, TypedResistivityText, T_x}

\* The texts plotted in VLF mode: up to MaxVLF lines whose stations are in
\* any order, repeated or unreadable
PlotVLFStations == {T_0, T_10, T_20, T_m12p5, T_x}
PlotVLFInPhases == {T_10, T_45p2}
PlotVLFLines ==
    {JoinWith(<<st, ip, T_0>>, <<",">>) : st \in PlotVLFStations, ip \in PlotVLFInPhases}
PlotVLFTexts == {JoinWith(ls, <<"\n">>) : ls \in TupleSets(PlotVLFLines, 1, MaxVLF)}

\* The files uploaded, as Papa.parse returns them: rows of fields
UploadedFiles ==
    { <<<<StationStr, T_x, T_x>>, <<T_0, T_45p2, T_m12p5>>, <<T_10, T_10, T_0>>>> }

\* The configurations a run of the pipeline can have
RunTexts == TypedTexts \cup {SampleVLFText, SampleResistivityText}
                       \cup {csvTextOf(f) : f \in UploadedFiles}
RunConfigs ==
    [currentDataType : DataTypes, dataInput : RunTexts, arrayType : ArrayTypes,
     karousHjeltToggle : BOOLEAN]

\* The configurations whose runs are compared: the typed VLF text with the
\* filter on and off, and the typed resistivity text under the Wenner array
WatchedConfigs ==
    {c \in RunConfigs :
        /\ c.arrayType = "wenner"
        /\ \/ c.currentDataType = "vlf" /\ c.dataInput = TypedVLFText
           \/ /\ c.currentDataType = "resistivity" /\ ~c.karousHjeltToggle
              /\ c.dataInput = TypedResistivityText}

-----------------------------------------------------------------------------
(* The plot controller.  Its operators take and return the page: a record  *)
(* of the globals and DOM properties above, and of the locals of the run   *)
(* of plotData in progress (text, data, vlfData, khData, groups, threw).   *)
(* The field chartThrows is an input of the run: whether the constructor   *)
(* of Chart.js, which is not part of script.js, throws when it is called.  *)

\* The parsers, tabulated over the texts the page can hold and the array
\* types that can be selected
parseVLFDataOn == [t \in RunTexts |-> parseVLFData(t)]
parseResistivityDataOn ==
    [t \in RunTexts |-> [at \in ArrayTypes |-> parseResistivityData(t, at)]]

\* the reference is cleared and destroy() is not called
destroyChart_KeepsInstance(s) == [s EXCEPT !.chart = "null"]

\* if (chart) { chart.destroy(); chart = null; }
destroyChart(s) ==
    IF s.chart # "null" THEN [s EXCEPT !.chart = "null", !.charts = @ - 1] ELSE s

\* chart = new Chart(ctx, {type, ...}): nothing is assigned when the
\* constructor throws
newChart(s, type) ==
    IF s.chartThrows THEN [s EXCEPT !.threw = TRUE]
    ELSE [s EXCEPT !.chart = type, !.charts = @ + 1]

\* lines 660-665: the error replaces the content of #chartArea, canvas included
displayError(s, message) ==
    [s EXCEPT !.chartArea = "error", !.errorMessage = message,
              !.statsSection = FALSE, !.downloadBtnDisabled = TRUE]

\* lines 668-695
clearAll(s, preserveInput) ==
    [destroyChart(s) EXCEPT !.dataInput = IF preserveInput THEN @ ELSE <<>>,
                            !.statsSection = FALSE, !.downloadBtnDisabled = TRUE,
                            !.chartArea = "placeholder", !.errorMessage = "none"]

\* plotVLFData without line 355: the records stay in input order
sortByStation_NotSorted(ds) == ds

\* line 355: data.sort((a, b) => a.station - b.station), stable
RECURSIVE insertByStation(_, _)
insertByStation(sorted, d) ==
    IF sorted # <<>> /\ Gt(Sub(sorted[Len(sorted)].station, d.station), Num(0))
    THEN Append(insertByStation(SubSeq(sorted, 1, Len(sorted) - 1), d),
                sorted[Len(sorted)])
    ELSE Append(sorted, d)

RECURSIVE sortByStation(_)
sortByStation(ds) ==
    IF ds = <<>> THEN <<>>
    ELSE insertByStation(sortByStation(SubSeq(ds, 1, Len(ds) - 1)), ds[Len(ds)])

\* lines 410-415: the Karous-Hjelt dataset, pushed when the toggle is
\* checked, the plugin is loaded and some value is finite
khDataset(s, sorted) ==
    IF /\ s.karousHjeltToggle /\ s.chartAnnotationPluginLoaded
       /\ \E i \in 1 .. Len(calculateKarousHjelt(sorted)) :
             IsFinite(calculateKarousHjelt(sorted)[i].y)
    THEN calculateKarousHjelt(sorted)
    ELSE <<>>

\* lines 355-461, for the sorted data; getElementById('chartPlaceholder')
\* is null, and reading its style throws, when the error has replaced it
plotVLFSorted(s, sorted) ==
    IF s.chartArea = "error" THEN [s EXCEPT !.threw = TRUE]
    ELSE newChart([s EXCEPT !.chartArea = "chart", !.vlfData = sorted,
                            !.khData = khDataset(s, sorted), !.statsSection = TRUE],
                  "line")

\* plotVLFData raising an exception where lines 351-354 report and return
plotVLFParsed_EmptyThrows(s) ==
    IF s.data = <<>> THEN [s EXCEPT !.threw = TRUE]
    ELSE plotVLFSorted(destroyChart(s), sortByStation(s.data))

\* lines 350-357, s.data being what parseVLFData returned
plotVLFParsed(s) ==
    IF s.data = <<>> THEN displayError(s, "novalid")
    ELSE plotVLFSorted(destroyChart(s), sortByStation(s.data))

\* lines 349-462
plotVLFData(s, input) == plotVLFParsed([s EXCEPT !.data = parseVLFDataOn[input]])

\* lines 478-548, g being the outcome of the grouping
plotResistivityGrouped(s, g) ==
    IF g.threw THEN [s EXCEPT !.chartArea = "chart", !.threw = TRUE]
    ELSE newChart([s EXCEPT !.chartArea = "chart", !.groups = g.groups,
                            !.stats = displayResistivityStats(s.data),
                            !.statsSection = TRUE],
                  "scatter")

\* lines 466-476, s.data being what parseResistivityData returned
plotResistivityParsed(s) ==
    IF s.data = <<>> THEN displayError(s, "novalid")
    ELSE IF s.chartArea = "error" THEN [destroyChart(s) EXCEPT !.threw = TRUE]
    ELSE plotResistivityGrouped(destroyChart(s), seriesGroups(s.data))

\* lines 465-549
plotResistivityData(s, input) ==
    plotResistivityParsed([s EXCEPT !.data = parseResistivityDataOn[input][s.arrayType]])

\* plotData without lines 302-305
recoverFromError_Skipped(s) == s

\* lines 300-305: existingError; dataInput keeps its value
recoverFromError(s) == IF s.chartArea = "error" THEN clearAll(s, TRUE) ELSE s

\* plotData without its catch clause: the exception leaves the handler
plotTry_Rethrows(r) ==
    IF r.threw THEN [r EXCEPT !.uncaught = TRUE]
    ELSE [r EXCEPT !.downloadBtnDisabled = FALSE]

\* lines 312-322: try / catch
plotTry(r) ==
    IF r.threw THEN displayError(r, "exception")
    ELSE [r EXCEPT !.downloadBtnDisabled = FALSE]

\* lines 307-322
plotInput(s, input) ==
    IF Trim(input) = <<>> THEN displayError(s, "blank")
    ELSE IF s.currentDataType = "vlf" THEN plotTry(plotVLFData(s, input))
    ELSE plotTry(plotResistivityData(s, input))

\* a run of plotData starts with its locals empty
beginRun(s) ==
    [s EXCEPT !.text = s.dataInput, !.data = <<>>, !.vlfData = <<>>,
              !.khData = <<>>, !.groups = <<>>, !.threw = FALSE,
              !.stats = NoStats, !.uncaught = FALSE]

\* lines 297-323
plotData(s) == plotInput(recoverFromError(beginRun(s)), s.dataInput)

\* the locals of a run are gone when a handler that ran none returns
noRun(s) ==
    [s EXCEPT !.text = <<>>, !.data = <<>>, !.vlfData = <<>>,
              !.khData = <<>>, !.groups = <<>>, !.threw = FALSE,
              !.stats = NoStats, !.uncaught = FALSE]

\* lines 738-745: getElementById('resistivityChart') is null, and reading
\* its height throws, when the error has replaced the canvas
downloadChart(s) ==
    IF s.chart = "null" THEN s
    ELSE IF s.chartArea = "error" THEN [s EXCEPT !.uncaught = TRUE]
    ELSE s

\* lines 80-101
setDataType(s, type) == clearAll([s EXCEPT !.currentDataType = type], FALSE)

\* lines 117-122, 590-593
toggleDarkMode(s) ==
    IF s.chart # "null" THEN plotData([s EXCEPT !.darkMode = ~@])
    ELSE [s EXCEPT !.darkMode = ~@]

\* lines 698-736
loadSampleData(s) ==
    IF s.currentDataType = "vlf"
    THEN plotData([s EXCEPT !.karousHjeltToggle = TRUE, !.dataInput = SampleVLFText])
    ELSE plotData([s EXCEPT !.arrayType = "wenner", !.dataInput = SampleResistivityText])

\* lines 107-112: the callback Papa.parse calls with the parsed file
uploadComplete(s, res) == plotData([s EXCEPT !.dataInput = csvTextOf(res)])

-----------------------------------------------------------------------------
(* SpecK: calculateGeometricFactor called on every (arrayType, positions) *)

NoCallK == /\ positions = <<>> /\ K_factor = Null
NoCallParse == /\ text = <<>> /\ data = <<>> /\ rows = <<>>
NoCallKH == /\ vlfData = <<>> /\ khData = <<>>
NoCallGroup == groups = <<>> /\ threw = FALSE /\ stats = NoStats

NoOutput == [data |-> <<>>, vlfData |-> <<>>, khData |-> <<>>, groups |-> <<>>]

\* the page as window.onload leaves it, with nothing watched
NoUI ==
    /\ chart = "null" /\ charts = 0
    /\ chartArea = "placeholder" /\ errorMessage = "none"
    /\ downloadBtnDisabled = TRUE /\ statsSection = FALSE
    /\ dataInput = <<>> /\ currentDataType = "vlf"
    /\ karousHjeltToggle = FALSE /\ chartAnnotationPluginLoaded = FALSE
    /\ darkMode = FALSE /\ upload = <<>> /\ uncaught = FALSE
    /\ watch = [currentDataType |-> "vlf", dataInput |-> <<>>, arrayType |-> "wenner",
                karousHjeltToggle |-> FALSE]
    /\ memo = [runs |-> 0, failed |-> FALSE, out |-> NoOutput]

InitK ==
    /\ pc = "call"
    /\ arrayType \in ArrayTypes \cup {"other"}
    /\ positions \in [1 .. 4 -> PosValues]
    /\ K_factor = Null
    /\ NoCallParse /\ NoCallKH /\ NoCallGroup
    /\ NoUI

CallComputeK ==
    /\ pc = "call"
    /\ K_factor' = calculateGeometricFactor(arrayType, positions)
    /\ pc' = "ret"
    /\ UNCHANGED <<arrayType, positions, text, data, rows, vlfData, khData, groups, threw>>
    /\ UNCHANGED <<stats, uiVars>>

SpecK == InitK /\ [][CallComputeK]_vars

-----------------------------------------------------------------------------
(* SpecVLF: parseVLFData called on every text of VLFTexts *)

InitVLF ==
    /\ pc = "call"
    /\ text \in VLFTexts
    /\ data = <<>> /\ rows = <<>>
    /\ arrayType = "wenner"
    /\ NoCallK /\ NoCallKH /\ NoCallGroup
    /\ NoUI

CallParseVLF ==
    /\ pc = "call"
    /\ rows' = parseVLFRows(text)
    /\ data' = Flatten(rows')
    /\ pc' = "ret"
    /\ UNCHANGED <<arrayType, positions, K_factor, text, vlfData, khData, groups, threw>>
    /\ UNCHANGED <<stats, uiVars>>

SpecVLF == InitVLF /\ [][CallParseVLF]_vars

-----------------------------------------------------------------------------
(* SpecRes: parseResistivityData called on every text of ResTexts, under  *)
(* every array type of the selector                                       *)

InitRes ==
    /\ pc = "call"
    /\ text \in ResTexts
    /\ arrayType \in ArrayTypes
    /\ data = <<>> /\ rows = <<>>
    /\ NoCallK /\ NoCallKH /\ NoCallGroup
    /\ NoUI

CallParseResistivity ==
    /\ pc = "call"
    /\ rows' = parseResistivityRows(text, arrayType)
    /\ data' = Flatten(rows')
    /\ pc' = "ret"
    /\ UNCHANGED <<arrayType, positions, K_factor, text, vlfData, khData, groups, threw>>
    /\ UNCHANGED <<stats, uiVars>>

SpecRes == InitRes /\ [][CallParseResistivity]_vars

-----------------------------------------------------------------------------
(* SpecKH: calculateKarousHjelt called on every sequence of up to MaxVLF  *)
(* records, sorted or not                                                  *)

InitKH ==
    /\ pc = "call"
    /\ vlfData \in TupleSets(KHRecords, 0, MaxVLF)
    /\ khData = <<>>
    /\ arrayType = "wenner"
    /\ NoCallK /\ NoCallParse /\ NoCallGroup
    /\ NoUI

CallKarousHjelt ==
    /\ pc = "call"
    /\ khData' = calculateKarousHjelt(vlfData)
    /\ pc' = "ret"
    /\ UNCHANGED <<arrayType, positions, K_factor, text, data, rows, vlfData, groups, threw>>
    /\ UNCHANGED <<stats, uiVars>>

SpecKH == InitKH /\ [][CallKarousHjelt]_vars

(* The VLF pipeline of plotVLFData: parse, sort by station, filter *)

InitPlotVLF ==
    /\ pc = "call"
    /\ text \in PlotVLFTexts
    /\ arrayType = "wenner"
    /\ NoCallK /\ data = <<>> /\ rows = <<>> /\ NoCallKH /\ NoCallGroup
    /\ NoUI

\* lines 350, 355 and 413
CallPlotVLFPipeline ==
    /\ pc = "call"
    /\ data' = parseVLFData(text)
    /\ vlfData' = sortByStation(data')
    /\ khData' = calculateKarousHjelt(vlfData')
    /\ pc' = "ret"
    /\ UNCHANGED <<arrayType, positions, K_factor, text, rows, groups, threw>>
    /\ UNCHANGED <<stats, uiVars>>

SpecPlotVLF == InitPlotVLF /\ [][CallPlotVLFPipeline]_vars

-----------------------------------------------------------------------------
(* SpecGroup: the grouping of plotResistivityData on every GroupInputs    *)

InitGroup ==
    /\ pc = "call"
    /\ data \in GroupInputs
    /\ text = <<>> /\ rows = <<>>
    /\ arrayType = "wenner"
    /\ NoCallK /\ NoCallKH /\ NoCallGroup
    /\ NoUI

CallGroupBySpacing ==
    /\ pc = "call"
    /\ groups' = seriesGroups(data).groups
    /\ threw' = seriesGroups(data).threw
    /\ stats' = displayResistivityStats(data)
    /\ pc' = "ret"
    /\ UNCHANGED <<arrayType, positions, K_factor, text, data, rows, vlfData, khData>>
    /\ UNCHANGED uiVars

SpecGroup == InitGroup /\ [][CallGroupBySpacing]_vars

-----------------------------------------------------------------------------
(* Spec: the page; one action per handler                                  *)

Page ==
    [chart |-> chart, charts |-> charts, chartArea |-> chartArea,
     errorMessage |-> errorMessage, downloadBtnDisabled |-> downloadBtnDisabled,
     statsSection |-> statsSection, dataInput |-> dataInput,
     currentDataType |-> currentDataType, arrayType |-> arrayType,
     karousHjeltToggle |-> karousHjeltToggle,
     chartAnnotationPluginLoaded |-> chartAnnotationPluginLoaded,
     darkMode |-> darkMode, uncaught |-> uncaught, chartThrows |-> FALSE,
     text |-> text, data |-> data, vlfData |-> vlfData, khData |-> khData,
     groups |-> groups, threw |-> threw, stats |-> stats]

ConfigOf(s) ==
    [currentDataType |-> s.currentDataType, dataInput |-> s.dataInput,
     arrayType |-> s.arrayType, karousHjeltToggle |-> s.karousHjeltToggle]

OutputOf(s) ==
    [data |-> s.data, vlfData |-> s.vlfData, khData |-> s.khData, groups |-> s.groups]

\* history: the first run of the watched configuration is remembered, and
\* whether a run since then ended in an error message
memoAfter(s, ran) ==
    IF ran /\ ConfigOf(s) = watch
    THEN IF memo.runs = 0 THEN [runs |-> 1, failed |-> FALSE, out |-> OutputOf(s)]
         ELSE [memo EXCEPT !.runs = 2]
    ELSE IF ran /\ memo.runs > 0 /\ s.chartArea = "error"
    THEN [memo EXCEPT !.failed = TRUE]
    ELSE memo

\* the handler leaves the page s; ran tells whether it ran plotData
Becomes(s, ran) ==
    /\ pc' = IF ran THEN "plotData" ELSE "idle"
    /\ chart' = s.chart /\ charts' = s.charts /\ chartArea' = s.chartArea
    /\ errorMessage' = s.errorMessage
    /\ downloadBtnDisabled' = s.downloadBtnDisabled
    /\ statsSection' = s.statsSection
    /\ dataInput' = s.dataInput /\ currentDataType' = s.currentDataType
    /\ arrayType' = s.arrayType /\ karousHjeltToggle' = s.karousHjeltToggle
    /\ chartAnnotationPluginLoaded' = s.chartAnnotationPluginLoaded
    /\ darkMode' = s.darkMode /\ uncaught' = s.uncaught
    /\ text' = s.text /\ data' = s.data /\ vlfData' = s.vlfData
    /\ khData' = s.khData /\ groups' = s.groups /\ threw' = s.threw
    /\ stats' = s.stats
    /\ memo' = memoAfter(s, ran)
    /\ UNCHANGED <<positions, K_factor, rows, watch>>

\* window.onload has run: setDataType('vlf').  The array type and the
\* checkbox are as the document has them; the plugin loaded or did not.
Init ==
    /\ pc = "idle"
    /\ NoCallK /\ NoCallParse /\ NoCallKH /\ NoCallGroup
    /\ chart = "null" /\ charts = 0
    /\ chartArea = "placeholder" /\ errorMessage = "none"
    /\ downloadBtnDisabled = TRUE /\ statsSection = FALSE
    /\ dataInput = <<>> /\ currentDataType = "vlf"
    /\ arrayType \in ArrayTypes
    /\ karousHjeltToggle \in BOOLEAN
    /\ chartAnnotationPluginLoaded \in BOOLEAN
    /\ darkMode = FALSE
    /\ upload = <<>>
    /\ uncaught = FALSE
    /\ watch \in WatchedConfigs
    /\ memo = [runs |-> 0, failed |-> FALSE, out |-> NoOutput]

\* the user edits the textarea
TypeInput ==
    \E t \in TypedTexts :
        /\ t # dataInput
        /\ Becomes([noRun(Page) EXCEPT !.dataInput = t], FALSE)
        /\ UNCHANGED upload

\* the user picks an array type
SelectArrayType ==
    \E at \in ArrayTypes :
        /\ at # arrayType
        /\ Becomes([noRun(Page) EXCEPT !.arrayType = at], FALSE)
        /\ UNCHANGED upload

\* the user clicks the Karous-Hjelt checkbox
ClickKarousHjeltToggle ==
    /\ Becomes([noRun(Page) EXCEPT !.karousHjeltToggle = ~@], FALSE)
    /\ UNCHANGED upload

SetDataType ==
    \E type \in DataTypes :
        /\ Becomes(setDataType(noRun(Page), type), FALSE)
        /\ UNCHANGED upload

ClearAll ==
    /\ Becomes(clearAll(noRun(Page), FALSE), FALSE)
    /\ UNCHANGED upload

PlotData ==
    \E f \in BOOLEAN :
        /\ Becomes(plotData([Page EXCEPT !.chartThrows = f]), TRUE)
        /\ UNCHANGED upload

ToggleDarkMode ==
    \E f \in IF chart # "null" THEN BOOLEAN ELSE {FALSE} :
        /\ Becomes(toggleDarkMode(IF chart # "null"
                                  THEN [Page EXCEPT !.chartThrows = f]
                                  ELSE noRun(Page)),
                   chart # "null")
        /\ UNCHANGED upload

LoadSampleData ==
    \E f \in BOOLEAN :
        /\ Becomes(loadSampleData([Page EXCEPT !.chartThrows = f]), TRUE)
        /\ UNCHANGED upload

\* lines 103-106: Papa.parse starts on the chosen file (one parse at a time)
HandleFileUpload ==
    \E f \in UploadedFiles :
        /\ upload = <<>>
        /\ upload' = f
        /\ Becomes(noRun(Page), FALSE)

\* lines 107-112: Papa.parse completes
UploadComplete ==
    \E f \in BOOLEAN :
        /\ upload # <<>>
        /\ upload' = <<>>
        /\ Becomes(uploadComplete([Page EXCEPT !.chartThrows = f], upload), TRUE)

\* the user clicks the download button, which a disabled button does not allow
DownloadChart ==
    /\ ~downloadBtnDisabled
    /\ Becomes(downloadChart(noRun(Page)), FALSE)
    /\ UNCHANGED upload

Next ==
    \/ TypeInput
    \/ SelectArrayType
    \/ ClickKarousHjeltToggle
    \/ SetDataType
    \/ ClearAll
    \/ PlotData
    \/ ToggleDarkMode
    \/ LoadSampleData
    \/ HandleFileUpload
    \/ UploadComplete
    \/ DownloadChart

Spec == Init /\ [][Next]_vars

-----------------------------------------------------------------------------
(* Claims *)

AllNumeric(ps) == \A i \in 1 .. 4 : IsFinite(ps[i])

\* C1 (as claimed): for wenner and four finite positions, zero included,
\* the result is 2*PI*a with a = |p2 - p1| when a > 0 and null when a = 0.
C1_WennerAsClaimed ==
    (pc = "ret" /\ arrayType = "wenner" /\ AllNumeric(positions)) =>
        LET a == Abs(Sub(positions[2], positions[1]))
        IN  K_factor = IF Gt(a, Num(0)) THEN Mul(Mul(Num(2), PI), a) ELSE Null

\* C2 (as claimed): for schlumberger and four finite positions, with
\* L = |p4 - p1| / 2 and a = |p3 - p2| / 2, the result is PI*(L^2 - a^2)/a
\* exactly when a > 0 and L > a, and null otherwise.
C2_SchlumbergerAsClaimed ==
    (pc = "ret" /\ arrayType = "schlumberger" /\ AllNumeric(positions)) =>
        LET L == Div(Abs(Sub(positions[4], positions[1])), Num(2))
            a == Div(Abs(Sub(positions[3], positions[2])), Num(2))
        IN  K_factor = IF Gt(a, Num(0)) /\ Gt(L, a)
                       THEN Div(Mul(PI, Sub(Mul(L, L), Mul(a, a))), a)
                       ELSE Null

\* C3 (as claimed): for dipole and four finite positions, with a = |p2 - p1|
\* and n = |p3 - p2| / a, the result is PI*n*(n+1)*(n+2)*a when a > 0 and
\* n > 0, 2*PI*a when a > 0 and n = 0, and null when a = 0.
C3_DipoleAsClaimed ==
    (pc = "ret" /\ arrayType = "dipole" /\ AllNumeric(positions)) =>
        LET a == Abs(Sub(positions[2], positions[1]))
            n == Div(Abs(Sub(positions[3], positions[2])), a)
        IN  K_factor =
              IF ~Gt(a, Num(0)) THEN Null
              ELSE IF Gt(n, Num(0))
              THEN Mul(Mul(Mul(Mul(PI, n), Add(n, Num(1))), Add(n, Num(2))), a)
              ELSE Mul(Mul(Num(2), PI), a)

\* The fields of a line as the claims count them: the non-empty pieces
\* between runs of tab, comma or space.
ClaimFields(line) == NonEmpty(SplitDelims(line))

ClaimIsHeaderVLF(line) ==
    \/ ContainsCI(line, <<"s", "t", "a", "t", "i", "o", "n">>)
    \/ ContainsCI(line, <<"i", "n", "p", "h", "a", "s", "e">>)

ClaimAcceptsVLF(line) ==
    /\ ~ClaimIsHeaderVLF(line)
    /\ Len(ClaimFields(line)) >= 3
    /\ \A i \in 1 .. 3 : IsFinite(parseFloat(ClaimFields(line)[i]))

ClaimNonBlankLines(txt) == SelectSeq(SplitLines(txt), LAMBDA l : Trim(l) # <<>>)

\* C4: parseVLFData returns, in input order, exactly one record for each
\* non-blank line that is no header (in any letter case) and has at least 3
\* fields whose first three parse to finite numbers, with the three values
\* preserved; every other line yields no record.
C4_ParseVLFExactlyAcceptedLines ==
    pc = "ret" =>
        LET acc == SelectSeq(ClaimNonBlankLines(text), ClaimAcceptsVLF)
        IN  data = [k \in 1 .. Len(acc) |->
                      [station |-> parseFloat(ClaimFields(acc[k])[1]),
                       inPhase |-> parseFloat(ClaimFields(acc[k])[2]),
                       quadrature |-> parseFloat(ClaimFields(acc[k])[3])]]

\* C4 witness: a text of several lines, two different ones accepted, and a
\* line dropped for its non-finite quadrature alone.
C4_Witness ==
    /\ pc = "ret"
    /\ Len(data) >= 2
    /\ data[1] # data[2]
    /\ LET ls == ClaimNonBlankLines(text)
       IN  \E i \in 1 .. Len(ls) :
                 /\ ~ClaimIsHeaderVLF(ls[i])
                 /\ Len(ClaimFields(ls[i])) >= 3
                 /\ IsFinite(parseFloat(ClaimFields(ls[i])[1]))
                 /\ IsFinite(parseFloat(ClaimFields(ls[i])[2]))
                 /\ ~IsFinite(parseFloat(ClaimFields(ls[i])[3]))

ClaimNumEq(a, b) == IsFinite(a) /\ IsFinite(b) /\ IsZero(Sub(a, b))

\* C5: every record parseResistivityData returns has spacing = |p2 - p1| > 0,
\* midpoint = (p1 + p4) / 2, depth = spacing * 0.519, a finite apparent
\* resistivity and a finite, nonzero kFactor; and a row whose first two
\* positions are equal produces no record.
C5_ResistivityRecordInvariants ==
    pc = "ret" =>
        /\ \A k \in 1 .. Len(data) :
              LET r == data[k]
              IN  /\ r.spacing = Abs(Sub(r.positions[2], r.positions[1]))
                  /\ Gt(r.spacing, Num(0))
                  /\ r.midpoint = Div(Add(r.positions[1], r.positions[4]), Num(2))
                  /\ r.depth = Mul(r.spacing, Fin(519, 1000, 0))
                  /\ IsFinite(r.apparentResistivity)
                  /\ IsFinite(r.kFactor)
                  /\ ~IsZero(r.kFactor)
        /\ LET ls == ClaimNonBlankLines(text)
           IN  /\ Len(rows) = Len(ls)
               /\ \A i \in 1 .. Len(ls) :
                     LET f == ClaimFields(ls[i])
                     IN  (Len(f) >= 2 /\ ClaimNumEq(parseFloat(f[1]), parseFloat(f[2])))
                            => rows[i] = <<>>

\* C5 witness: a text with an accepted row and a complete row of spacing 0,
\* which is dropped.
C5_Witness ==
    /\ pc = "ret"
    /\ Len(data) >= 1
    /\ LET ls == ClaimNonBlankLines(text)
       IN  \E i \in 1 .. Len(ls) :
              LET f == ClaimFields(ls[i])
              IN  /\ Len(f) >= 7
                  /\ \A j \in 1 .. 7 : IsFinite(parseFloat(f[j]))
                  /\ ~IsZero(parseFloat(f[5]))
                  /\ ClaimNumEq(parseFloat(f[1]), parseFloat(f[2]))
                  /\ rows[i] = <<>>

ClaimRhoSupplied(f) == Len(f) >= 7 /\ IsFinite(parseFloat(f[7]))

\* C6: for every accepted row, isCalculated holds exactly when field 6 is
\* absent or not finite, and then apparentResistivity = kFactor * resistance;
\* when field 6 is finite, apparentResistivity is the supplied value; a row
\* with no finite supplied value and a non-finite resistance is skipped.
C6_ApparentResistivityResolution ==
    pc = "ret" =>
        LET ls == ClaimNonBlankLines(text)
        IN  /\ Len(rows) = Len(ls)
            /\ \A i \in 1 .. Len(ls) :
                  LET f == ClaimFields(ls[i])
                  IN  /\ rows[i] # <<>> =>
                            LET r == rows[i][1]
                            IN  /\ r.isCalculated <=> ~ClaimRhoSupplied(f)
                                /\ r.isCalculated =>
                                      r.apparentResistivity = Mul(r.kFactor, r.resistance)
                                /\ ClaimRhoSupplied(f) =>
                                      r.apparentResistivity = parseFloat(f[7])
                      /\ (~ClaimRhoSupplied(f)
                            /\ ~(Len(f) >= 6 /\ IsFinite(parseFloat(f[6]))))
                            => rows[i] = <<>>

\* C6 witness: one text with a row whose apparent resistivity was supplied
\* and a row for which it was calculated.
C6_Witness ==
    /\ pc = "ret"
    /\ \E i, j \in 1 .. Len(data) :
          /\ data[i].isCalculated
          /\ ~data[j].isCalculated
          /\ data[i].apparentResistivity # data[j].apparentResistivity

ClaimDeltaStation(i) == Sub(vlfData[i + 1].station, vlfData[i].station)

\* the adjacent pairs with a nonzero station difference, in input order
ClaimKHPairs ==
    SelectSeq([i \in 1 .. Len(vlfData) - 1 |-> i],
              LAMBDA i : ~IsZero(ClaimDeltaStation(i)))

\* C7: for fewer than 2 records calculateKarousHjelt returns the empty
\* sequence; otherwise it returns, in input order, one point per adjacent
\* pair with a nonzero station difference, with x the mean of the two
\* stations and y * (station difference) = in-phase difference, so its
\* length is N - 1 minus the number of pairs with equal stations.
C7_KarousHjeltPairs ==
    pc = "ret" =>
        /\ Len(vlfData) < 2 => khData = <<>>
        /\ Len(khData) = Len(ClaimKHPairs)
        /\ \A k \in 1 .. Len(ClaimKHPairs) :
              LET i == ClaimKHPairs[k]
              IN  /\ khData[k].x = Div(Add(vlfData[i].station, vlfData[i + 1].station),
                                       Num(2))
                  /\ Mul(khData[k].y, ClaimDeltaStation(i))
                        = Sub(vlfData[i + 1].inPhase, vlfData[i].inPhase)

\* C7 witness: three records, one pair of coincident stations skipped and one
\* pair with a nonzero slope emitted.
C7_Witness ==
    /\ pc = "ret"
    /\ Len(vlfData) = 3
    /\ Len(khData) = 1
    /\ ~IsZero(khData[1].y)

\* the value rounded to 2 decimal places, as a number
ClaimRound2(x) ==
    IF IsFinite(x) THEN Fin((200 * x.n + x.d) \div (2 * x.d), 100, 0) ELSE x

ClaimRange(ps) == {ps[i] : i \in 1 .. Len(ps)}

ClaimInGroup(g, a) ==
    pointOf(data[a]) \in ClaimRange(groups[g].measured) \cup ClaimRange(groups[g].calculated)

\* C8: two records are in the same group exactly when their spacings round
\* to the same value at 2 decimal places, and the groups are emitted in
\* strictly ascending order of that rounded spacing.
C8_GroupsByRoundedSpacingAscending ==
    pc = "ret" =>
        /\ ~threw
        /\ \A g, h \in 1 .. Len(groups) :
              g < h => Gt(groups[h].spacing, groups[g].spacing)
        /\ \A a, b \in 1 .. Len(data) :
              (\E g \in 1 .. Len(groups) : ClaimInGroup(g, a) /\ ClaimInGroup(g, b))
                 <=> ClaimRound2(data[a].spacing) = ClaimRound2(data[b].spacing)
        /\ \A a \in 1 .. Len(data) : \A g \in 1 .. Len(groups) :
              ClaimInGroup(g, a) => groups[g].spacing = ClaimRound2(data[a].spacing)

\* C8 witness: two records of different spacings share a group, and a
\* record of a larger spacing comes before one of a smaller spacing.
C8_Witness ==
    /\ pc = "ret"
    /\ Len(groups) >= 2
    /\ \E a, b \in 1 .. Len(data) :
          /\ data[a].spacing # data[b].spacing
          /\ \E g \in 1 .. Len(groups) : ClaimInGroup(g, a) /\ ClaimInGroup(g, b)
    /\ \E a, b \in 1 .. Len(data) :
          a < b /\ Gt(ClaimRound2(data[a].spacing), ClaimRound2(data[b].spacing))

ClaimAscendingX(ps) == \A i, j \in 1 .. Len(ps) : i < j => ~Gt(ps[i].x, ps[j].x)

\* C9: in every group the measured list holds exactly the group's records
\* with isCalculated false and the calculated list those with isCalculated
\* true, as {x: midpoint, y: apparentResistivity}, both in ascending
\* midpoint order; every input record is in exactly one list, once.
C9_GroupPartitionSortedComplete ==
    pc = "ret" =>
        /\ \A g \in 1 .. Len(groups) :
              /\ ClaimAscendingX(groups[g].measured)
              /\ ClaimAscendingX(groups[g].calculated)
              /\ \A k \in 1 .. Len(groups[g].measured) :
                    \E a \in 1 .. Len(data) :
                       /\ pointOf(data[a]) = groups[g].measured[k]
                       /\ ~data[a].isCalculated
                       /\ ClaimRound2(data[a].spacing) = groups[g].spacing
              /\ \A k \in 1 .. Len(groups[g].calculated) :
                    \E a \in 1 .. Len(data) :
                       /\ pointOf(data[a]) = groups[g].calculated[k]
                       /\ data[a].isCalculated
                       /\ ClaimRound2(data[a].spacing) = groups[g].spacing
        /\ \A a \in 1 .. Len(data) :
              Cardinality({<<g, l, k>> \in (1 .. Len(groups)) \X {"m", "c"} \X (1 .. Len(data)) :
                    LET ps == IF l = "m" THEN groups[g].measured ELSE groups[g].calculated
                    IN  k <= Len(ps) /\ ps[k] = pointOf(data[a])}) = 1

\* C9 witness: a group with two measured records given in descending
\* midpoint order and a calculated record.
C9_Witness ==
    /\ pc = "ret"
    /\ \E g \in 1 .. Len(groups) :
          /\ Len(groups[g].measured) = 2
          /\ Len(groups[g].calculated) = 1
          /\ Gt(groups[g].measured[2].x, groups[g].measured[1].x)
          /\ Gt(groups[g].measured[1].y, groups[g].measured[2].y)

\* C10: after any sequence of handlers, a run of plotData on the same data
\* type, input text, array type and filter flag as an earlier run produces
\* the same records, the same sorted records and Karous-Hjelt points and
\* the same series groups as that run did.
C10_PipelineDeterministic ==
    (pc = "plotData" /\ memo.runs > 0 /\ ConfigOf(Page) = watch)
        => OutputOf(Page) = memo.out

\* C10 witness: a resistivity configuration whose run builds a group from a
\* K the calculator supplied is run a second time, a plot having ended in
\* an error message in between.
C10_Witness ==
    /\ pc = "plotData" /\ ConfigOf(Page) = watch
    /\ memo.runs = 2 /\ memo.failed
    /\ currentDataType = "resistivity"
    /\ groups # <<>>
    /\ \E i \in 1 .. Len(data) : data[i].kFactor.pi = 1

(***************************************************************************)
(* C11. Whenever plotData runs on non-blank input from which the parser    *)
(* accepts no record, the "no valid data" error is what is displayed, it   *)
(* is displayed by plotVLFData or plotResistivityData returning normally   *)
(* (no exception was raised), and no chart is created: the chart held is   *)
(* the one held before or none, and the number of live Chart instances did *)
(* not grow.  Whenever the parser accepts at least one record and nothing  *)
(* fails afterwards, the run ends with no error displayed.                 *)
(***************************************************************************)
C11_EmptyResultReported ==
    [][pc' = "plotData" =>
          /\ (Trim(text') # <<>> /\ data' = <<>>) =>
                 /\ errorMessage' = "novalid" /\ chartArea' = "error"
                 /\ ~threw'
                 /\ chart' \in {chart, "null"} /\ charts' <= charts
          /\ (data' # <<>> /\ ~threw') =>
                 /\ errorMessage' = "none" /\ chartArea' = "chart"]_vars

\* a run on the non-blank text "x", of which no line is accepted
C11_Witness ==
    /\ pc = "plotData" /\ text = T_x /\ data = <<>>
    /\ errorMessage = "novalid" /\ ~threw

(***************************************************************************)
(* C12. Whenever a run of plotData had an exception raised inside          *)
(* plotVLFData or plotResistivityData, the handler that ran it ended       *)
(* without an uncaught exception, the error message is displayed in the    *)
(* chart area, no chart is held and the download button is disabled.       *)
(***************************************************************************)
C12_ExceptionsCaughtInPlotData ==
    (pc = "plotData" /\ threw) =>
        /\ ~uncaught
        /\ chartArea = "error" /\ errorMessage = "exception"
        /\ chart = "null" /\ charts = 0
        /\ downloadBtnDisabled

\* a run on accepted records in which the constructor of Chart threw
C12_Witness ==
    /\ pc = "plotData" /\ threw /\ data # <<>>
    /\ errorMessage = "exception" /\ downloadBtnDisabled

(***************************************************************************)
(* C15. After a run of plotData in VLF mode that reached the datasets, the *)
(* Karous-Hjelt series is part of what was produced for the chart exactly  *)
(* when the filter checkbox is checked and the filter yields at least one  *)
(* finite point from the sorted records; nothing else decides it.          *)
(***************************************************************************)
ClaimKHYields(sorted) ==
    \E i \in 1 .. Len(calculateKarousHjelt(sorted)) :
        IsFinite(calculateKarousHjelt(sorted)[i].y)

C15_KHSeriesExactlyWhenRequested ==
    (pc = "plotData" /\ currentDataType = "vlf" /\ vlfData # <<>>) =>
        /\ (karousHjeltToggle /\ ClaimKHYields(vlfData)) =>
               khData = calculateKarousHjelt(vlfData)
        /\ ~karousHjeltToggle => khData = <<>>

(***************************************************************************)
(* C16. In every state of the page, the download button is enabled only    *)
(* while a chart is held and the chart area holds the canvas; after a run  *)
(* of plotData that ended with the error message displayed the button is   *)
(* disabled; and no click on the button ends by the exception that reading *)
(* the missing canvas raises.                                              *)
(***************************************************************************)
C16_DownloadOnlyWithChartAndCanvas ==
    /\ ~downloadBtnDisabled => (chart # "null" /\ chartArea = "chart")
    /\ (pc = "plotData" /\ chartArea = "error") => downloadBtnDisabled
    /\ ~uncaught

(***************************************************************************)
(* C19. In every state of the page at most one Chart instance that was not *)
(* destroyed exists, and it is the one the variable chart refers to: when  *)
(* chart is null no instance is alive.  After clearAll, which leaves the   *)
(* placeholder in the chart area, no chart is held.                        *)
(***************************************************************************)
C19_AtMostOneLiveChart ==
    /\ charts <= 1
    /\ (chart = "null") <=> (charts = 0)
    /\ chartArea = "placeholder" => (chart = "null" /\ charts = 0)

\* the watched configuration was plotted a second time and a chart is held
C19_Witness ==
    /\ pc = "plotData" /\ memo.runs = 2
    /\ chart # "null" /\ charts = 1 /\ chartArea = "chart"

ClaimUsable(k) == IsFinite(k) /\ ~IsZero(k)

ClaimPositions(f) == [i \in 1 .. 4 |-> parseFloat(f[i])]

\* a row with at least six fields, four numeric positions and spacing > 0
ClaimSpacedRow(f) ==
    /\ Len(f) >= 6
    /\ \A i \in 1 .. 4 : ~IsNaN(parseFloat(f[i]))
    /\ Gt(Abs(Sub(parseFloat(f[2]), parseFloat(f[1]))), Num(0))

(***************************************************************************)
(* C13. For every row of the text with four numeric positions and spacing  *)
(* > 0: when field 4 parses to a finite nonzero number, a record of the    *)
(* row has that number as kFactor, whatever the calculator returns; when   *)
(* field 4 is not finite or is zero, a record of the row has as kFactor    *)
(* calculateGeometricFactor(arrayType, positions), and the row yields no   *)
(* record when that result is not a finite nonzero number.                 *)
(***************************************************************************)
C13_GeometricFactorResolution ==
    pc = "ret" =>
        LET ls == ClaimNonBlankLines(text)
        IN  /\ Len(rows) = Len(ls)
            /\ \A i \in 1 .. Len(ls) :
                  LET f == ClaimFields(ls[i])
                  IN  ClaimSpacedRow(f) =>
                         LET ks == parseFloat(f[5])
                             kc == calculateGeometricFactor(arrayType, ClaimPositions(f))
                         IN  IF ClaimUsable(ks)
                             THEN rows[i] # <<>> => rows[i][1].kFactor = ks
                             ELSE IF ClaimUsable(kc)
                             THEN rows[i] # <<>> => rows[i][1].kFactor = kc
                             ELSE rows[i] = <<>>

\* C13 witness: a text with a record whose K was supplied while the
\* calculator gives another usable value, a record whose K the calculator
\* supplied, and a row with finite resistance skipped for want of a K.
C13_Witness ==
    /\ pc = "ret"
    /\ LET ls == ClaimNonBlankLines(text)
       IN  /\ \E i \in 1 .. Len(ls) :
                 /\ ClaimSpacedRow(ClaimFields(ls[i]))
                 /\ ClaimUsable(parseFloat(ClaimFields(ls[i])[5]))
                 /\ ClaimUsable(calculateGeometricFactor(arrayType,
                                     ClaimPositions(ClaimFields(ls[i]))))
                 /\ rows[i] # <<>>
                 /\ rows[i][1].kFactor = parseFloat(ClaimFields(ls[i])[5])
                 /\ rows[i][1].kFactor #
                       calculateGeometricFactor(arrayType, ClaimPositions(ClaimFields(ls[i])))
           /\ \E i \in 1 .. Len(ls) :
                 /\ ClaimSpacedRow(ClaimFields(ls[i]))
                 /\ ~ClaimUsable(parseFloat(ClaimFields(ls[i])[5]))
                 /\ rows[i] # <<>>
           /\ \E i \in 1 .. Len(ls) :
                 /\ ClaimSpacedRow(ClaimFields(ls[i]))
                 /\ ~ClaimUsable(parseFloat(ClaimFields(ls[i])[5]))
                 /\ IsFinite(parseFloat(ClaimFields(ls[i])[6]))
                 /\ rows[i] = <<>>

(***************************************************************************)
(* C14. Every record parseResistivityData returns has a finite resistance, *)
(* and a row whose field 5 does not parse to a finite number yields no     *)
(* record, also when field 6 supplies a finite apparent resistivity.       *)
(***************************************************************************)
C14_ResistanceRequiredNumeric ==
    pc = "ret" =>
        /\ \A k \in 1 .. Len(data) : IsFinite(data[k].resistance)
        /\ LET ls == ClaimNonBlankLines(text)
           IN  /\ Len(rows) = Len(ls)
               /\ \A i \in 1 .. Len(ls) :
                     (/\ Len(ClaimFields(ls[i])) >= 6
                      /\ ~IsFinite(parseFloat(ClaimFields(ls[i])[6])))
                        => rows[i] = <<>>

(***************************************************************************)
(* C17. In the VLF pipeline the records that reach the Karous-Hjelt filter *)
(* are the parsed records in ascending order of station, so every point    *)
(* the filter emits comes from an adjacent pair whose station difference   *)
(* is > 0, and the x values of the emitted points are strictly increasing. *)
(***************************************************************************)
C17_KHAfterSortStrictlyIncreasing ==
    pc = "ret" =>
        /\ Len(vlfData) = Len(data)
        /\ \A i \in 1 .. Len(vlfData) - 1 :
              Le(vlfData[i].station, vlfData[i + 1].station)
        /\ Len(khData) = Len(ClaimKHPairs)
        /\ \A k \in 1 .. Len(ClaimKHPairs) :
              /\ Gt(ClaimDeltaStation(ClaimKHPairs[k]), Num(0))
              /\ khData[k].x = Div(Add(vlfData[ClaimKHPairs[k]].station,
                                       vlfData[ClaimKHPairs[k] + 1].station), Num(2))
        /\ \A k \in 1 .. Len(khData) - 1 :
              Gt(Sub(khData[k + 1].x, khData[k].x), Num(0))

\* C17 witness: three records read in descending order of station, from
\* which the filter emits two points
C17_Witness ==
    /\ pc = "ret" /\ Len(data) = 3 /\ Len(khData) = 2
    /\ Gt(Sub(data[1].station, data[2].station), Num(0))
    /\ Gt(Sub(data[2].station, data[3].station), Num(0))

\* lines 259-261 for a row whose field 4 is unusable: whether the row goes
\* on with the result k of the calculator
ClaimFallbackKeeps(k) == resolveKWith(NaN, k).ok

RECURSIVE ClaimTotalPoints(_)
ClaimTotalPoints(gs) ==
    IF gs = <<>> THEN 0
    ELSE Len(gs[1].measured) + Len(gs[1].calculated) + ClaimTotalPoints(Tail(gs))

(***************************************************************************)
(* C20. For every non-empty sequence of resistivity records, the           *)
(* spacingCount of the summary statistics is the number of series groups   *)
(* the grouping emits for the same records, and the point count is the     *)
(* total number of points in the measured and calculated lists of all      *)
(* groups.                                                                 *)
(***************************************************************************)
C20_StatsAgreeWithGroups ==
    (pc = "ret" /\ data # <<>>) =>
        /\ stats.spacingCount = Len(groups)
        /\ stats.points = ClaimTotalPoints(groups)

\* C20 witness: three records of three different spacings, two of which
\* round to the same value, in two groups
C20_Witness ==
    /\ pc = "ret" /\ Len(data) = 3
    /\ Cardinality({data[i].spacing : i \in 1 .. 3}) = 3
    /\ Len(groups) = 2 /\ stats.spacingCount = 2 /\ stats.points = 3

====
